---- MODULE Spec2Model ----
(***************************************************************************)
(* A model of the EventEmitter of aionevents (event-emitter.ts, event.ts). *)
(* Emitters hold an instance-scoped and a class-scoped mapping from hook   *)
(* name to a sequence of Event records and a list of wired emitters.       *)
(* fire dispatches synchronously; it is modelled as a call stack of        *)
(* frames, one step per loop iteration, so that callbacks that call back   *)
(* into the emitter (the once wrapper's off, a re-entrant fire) act in the *)
(* middle of the iteration exactly as in the code.                         *)
(***************************************************************************)
EXTENDS Integers, Sequences, FiniteSets, TLC

VARIABLES
    constructed,     \* the emitters whose constructor has run
    instanceEvents,  \* emitter -> (hook -> sequence of Event), EventEmitter.instanceEvents
    classEvents,     \* holder -> (hook -> sequence of Event), EventEmitter.classEvents
    classRef,        \* emitter -> the object holding the classEvents it reads
    wiredEmitters,   \* emitter -> sequence of emitters, EventEmitter.wiredEmitters
    stack,           \* the call stack of the running dispatch, top last
    trace,           \* the callback invocations of the last top-level call
    result,          \* how the last top-level call ended
    lastOp,          \* the last top-level call
    pre,             \* the registries as they were when the last top-level call began
    calls,           \* per once wrapper: how often its original callback was invoked
    cancelled,       \* the once wrappers whose once call was directly followed by off
    used,            \* how many top-level calls of each kind were made
    earlier,         \* the fire calls made just before the last one, with their invocations
    params           \* the caller's params object: its value now and when it was passed

vars == <<constructed, instanceEvents, classEvents, classRef, wiredEmitters,
          stack, trace, result, lastOp, pre, calls, cancelled, used, earlier,
          params>>

-----------------------------------------------------------------------------
(* Bounds of the model *)

MaxRegs == 3     \* on/once/On/Once calls
MaxWires == 2    \* wire calls
MaxFires == 2    \* top-level fire calls
MaxOffs == 1     \* top-level off calls
MaxDepth == 3    \* frames on the call stack before the engine's stack overflows

\* The same, for the specification of the registry alone
MaxRegistryRegs == 3
MaxRegistryWires == 1
MaxRegistryOffs == 1
MaxRegistryFires == 1

\* The same, for the specification of three emitters
MaxChainRegs == 2
MaxChainWires == 2
MaxChainFires == 1

\* The same, for the specification of the fan-in
MaxFanRegs == 2
MaxFanWires == 2
MaxFanFires == 2

\* The same, for the specification of the throwing callbacks
MaxThrowRegs == 3
MaxThrowWires == 1
MaxThrowFires == 2

\* The same, for the specification of the decorated class
MaxReplayRegs == 2
MaxReplayWires == 1
MaxReplayOffs == 1
MaxReplayFires == 1

\* The same, for the specification of the static Fire
MaxStaticRegs == 2
MaxStaticWires == 1
MaxStaticFires == 1

\* The same, for the specification of the params object
MaxParamsRegs == 3
MaxParamsWires == 1
MaxParamsFires == 1

\* The same, for the specification of the callbacks that register
MaxGrowRegs == 2
MaxGrowWires == 1
MaxGrowFires == 1

\* Two emitters of one decorated class, each firing.
MaxSharedRegs == 2
MaxSharedWires == 1
MaxSharedFires == 2
\* A sequence of MaxGrowRegs Events at most doubles in a fire whose loops end
\* at the length they found, so no such fire needs a sequence longer than
\* this; a dispatch that needs one is not followed further.
MaxLen == MaxGrowRegs * (2 ^ MaxGrowFires) + 1

-----------------------------------------------------------------------------
(* Input sets *)

Emitters == {"A", "B", "C"}
Proto == "P"                 \* the class prototype the decorators register on
Hooks == {"h1", "h2"}
ReHook == "h1"               \* the hook the re-entrant callback fires
Class == "EventEmitter"      \* the class itself: what this is in a static method
None == "-"

\* What the body of a user callback does when it is invoked.
Behaviour(orig) ==
    CASE orig \in {"c1", "c2"} -> "plain"     \* returns
      [] orig = "cT" -> "throw"               \* throws
      [] orig = "cF" -> "fire"                \* calls this.fire(ReHook)
      [] orig = "cM" -> "mutate"              \* sets a key of the object it received
      [] orig = "cR" -> "register"            \* calls this.on(hook, itself)
      [] OTHER -> "plain"

\* The user function returns to the dispatch that called it.
Returns(orig) == Behaviour(orig) \in {"plain", "mutate"}

\* A params value: the number under each top-level key, 0 for a key that is
\* not there. An object is a value and the reference it is reached by.
Keys == {"k"}
NoParams == [key \in Keys |-> 0]                   \* the default, {}
SomeParams == [key \in Keys |-> 1]
Object(ref, val) == [ref |-> ref, val |-> val]

\* A callback value: a user function (id = 0) or the oneTimeCallback closure
\* number id that Once created around the user function orig.
Cb(orig) == [orig |-> orig, id |-> 0]
NoCb == Cb(None)

-----------------------------------------------------------------------------
(* event.ts *)

\* new Event({hook, callback, source, params: {}})
Event(hook, callback, source) ==
    [name |-> hook, callback |-> callback, source |-> source]

-----------------------------------------------------------------------------
(* event-emitter.ts: registration *)

\* target.xEvents[event.name] ??= []; target.xEvents[event.name].push(event)
registerEvent(events, event) ==
    IF event.name \in DOMAIN events
    THEN [events EXCEPT ![event.name] = Append(@, event)]
    ELSE events @@ (event.name :> <<event>>)

\* The sequence a registry holds for a hook, empty when it has none.
EventsFor(registry, hook) == IF hook \in DOMAIN registry THEN registry[hook] ELSE <<>>

\* The closure Once creates: a new function value at every call.
oneTimeCallback(callback) == [orig |-> callback.orig, id |-> Len(calls) + 1]

\* The object whose classEvents the target reads and writes.
ClassHolder(target) == IF target = Proto THEN Proto ELSE classRef[target]

\* A registration in the class-scoped collection that also reaches the
\* instance collections of the emitters already constructed from it.
RegisteredLive(target, event, isClassEvent) ==
    IF isClassEvent
    THEN /\ classEvents' = [classEvents EXCEPT
                              ![ClassHolder(target)] = registerEvent(@, event)]
         /\ instanceEvents' =
               [e \in Emitters |->
                  IF e \in constructed /\ classRef[e] = ClassHolder(target)
                  THEN registerEvent(instanceEvents[e], event)
                  ELSE instanceEvents[e]]
    ELSE /\ instanceEvents' = [instanceEvents EXCEPT
                                 ![target] = registerEvent(@, event)]
         /\ UNCHANGED classEvents

\* The registries after registerEvent(target, event, isClassEvent).
Registered(target, event, isClassEvent) ==
    IF isClassEvent
    THEN /\ classEvents' = [classEvents EXCEPT
                              ![ClassHolder(target)] = registerEvent(@, event)]
         /\ UNCHANGED instanceEvents
    ELSE /\ instanceEvents' = [instanceEvents EXCEPT
                                 ![target] = registerEvent(@, event)]
         /\ UNCHANGED classEvents

Snapshot == [ie |-> instanceEvents, ce |-> classEvents, we |-> wiredEmitters]

\* Bookkeeping of a top-level call that returns at once.
Returned(op, em, hook, cb, other) ==
    /\ lastOp' = [op |-> op, em |-> em, hook |-> hook, cb |-> cb, other |-> other]
    /\ pre' = Snapshot
    /\ trace' = <<>>
    /\ result' = "returned"
    /\ stack' = <<>>
    /\ earlier' = <<>>
    /\ params' = [val |-> NoParams, passed |-> NoParams]

Idle == stack = <<>>

\* The objects a registration can be made on: a constructed emitter, or, for a
\* class-scoped registration, also the prototype (the decorators' target).
Targets(classDefined) == constructed \cup (IF classDefined THEN {Proto} ELSE {})

\* static On(eventName, callback, target, classDefined)
On(eventName, callback, target, classDefined) ==
    /\ Idle
    /\ target \in Targets(classDefined)
    /\ Registered(target, Event(eventName, callback, target), classDefined)
    /\ used' = [used EXCEPT !.reg = @ + 1]
    /\ Returned(IF classDefined THEN "On" ELSE "on", target, eventName, callback, None)
    /\ UNCHANGED <<constructed, classRef, wiredEmitters, calls, cancelled>>

\* on(eventName, callback)
on(this, eventName, callback) == On(eventName, callback, this, FALSE)

\* static Once(eventName, callback, target, classDefined)
Once(eventName, callback, target, classDefined) ==
    /\ Idle
    /\ target \in Targets(classDefined)
    /\ Registered(target, Event(eventName, oneTimeCallback(callback), target),
                  classDefined)
    /\ calls' = Append(calls, 0)
    /\ used' = [used EXCEPT !.reg = @ + 1]
    /\ Returned(IF classDefined THEN "Once" ELSE "once", target, eventName,
                callback, None)
    /\ UNCHANGED <<constructed, classRef, wiredEmitters, cancelled>>

\* once(eventName, callback)
once(this, eventName, callback) == Once(eventName, callback, this, FALSE)

-----------------------------------------------------------------------------
(* event-emitter.ts: removal *)

\* events.find((event) => event.callback === callback), then indexOf: the
\* position of the first Event with that callback, 0 when there is none.
FindIndex(events, callback) ==
    IF \E i \in 1..Len(events) : events[i].callback = callback
    THEN CHOOSE i \in 1..Len(events) :
            /\ events[i].callback = callback
            /\ \A j \in 1..(i - 1) : events[j].callback # callback
    ELSE 0

\* events.splice(index, 1)
Splice(events, index) ==
    SubSeq(events, 1, index - 1) \o SubSeq(events, index + 1, Len(events))

\* this.instanceEvents after this.off(eventName, callback)
Off(events, eventName, callback) ==
    IF eventName \notin DOMAIN events
    THEN events
    ELSE LET index == FindIndex(events[eventName], callback)
         IN  IF index = 0
             THEN events
             ELSE [events EXCEPT ![eventName] = Splice(@, index)]

\* off(eventName, callback)
off(this, eventName, callback) ==
    /\ Idle
    /\ this \in constructed
    /\ instanceEvents' = [instanceEvents EXCEPT ![this] = Off(@, eventName, callback)]
    /\ used' = [used EXCEPT !.off = @ + 1]
    /\ cancelled' = cancelled \cup
                     (IF lastOp = [op |-> "once", em |-> this, hook |-> eventName,
                                   cb |-> callback, other |-> None]
                      THEN {Len(calls)}
                      ELSE {})
    /\ Returned("off", this, eventName, callback, None)
    /\ UNCHANGED <<constructed, classEvents, classRef, wiredEmitters, calls>>

-----------------------------------------------------------------------------
(* event-emitter.ts: wiring *)

\* wire(eventable)
wire(this, eventable) ==
    /\ Idle
    /\ this \in constructed /\ eventable \in constructed
    /\ wiredEmitters' = [wiredEmitters EXCEPT ![this] = Append(@, eventable)]
    /\ used' = [used EXCEPT !.wire = @ + 1]
    /\ Returned("wire", this, None, NoCb, eventable)
    /\ UNCHANGED <<constructed, instanceEvents, classEvents, classRef, calls, cancelled>>

-----------------------------------------------------------------------------
(* event-emitter.ts: construction *)

EmptyEvents == <<>>          \* the object {}

\* this.classEvents ??= {}: an emitter reads the prototype's classEvents when
\* the prototype has one, and gets an object of its own otherwise.
InheritedHolder(this) == IF DOMAIN classEvents[Proto] # {} THEN Proto ELSE this

\* The constructor's loop: this.on(hook, events[e].callback) for every Event
\* of every hook of this.classEvents, starting from instanceEvents = {}.
Replayed(this, events) ==
    [hook \in DOMAIN events |->
        [e \in 1..Len(events[hook]) |->
            Event(hook, events[hook][e].callback, this)]]

\* new EventEmitter()
constructor(this) ==
    /\ Idle
    /\ this \notin constructed
    /\ constructed' = constructed \cup {this}
    /\ classRef' = [classRef EXCEPT ![this] = InheritedHolder(this)]
    /\ instanceEvents' = [instanceEvents EXCEPT
                            ![this] = Replayed(this, classEvents[InheritedHolder(this)])]
    /\ wiredEmitters' = [wiredEmitters EXCEPT ![this] = <<>>]
    /\ Returned("new", this, None, NoCb, None)
    /\ UNCHANGED <<classEvents, calls, cancelled, used>>

-----------------------------------------------------------------------------
(* event-emitter.ts: dispatch *)

\* The activation of this.fire(eventName): the guard of line 158 is evaluated
\* and the length of the local sequence is captured (line 159) on entry.
FireFrame(this, eventName) ==
    LET local == eventName \in DOMAIN instanceEvents[this]
    IN  [kind |-> "fire", em |-> this, hook |-> eventName,
         phase |-> IF local THEN "local" ELSE "wired",
         len |-> IF local THEN Len(instanceEvents[this][eventName]) ELSE 0,
         e |-> 1, w |-> 1, cb |-> NoCb]

\* The activation of a oneTimeCallback whose callback.call(...) has not
\* returned yet: this.off(eventName, oneTimeCallback) is still to run.
OnceFrame(this, eventName, callback) ==
    [kind |-> "once", em |-> this, hook |-> eventName, phase |-> "off",
     len |-> 0, e |-> 0, w |-> 0, cb |-> callback]

Top == stack[Len(stack)]
Below == SubSeq(stack, 1, Len(stack) - 1)

\* A dispatch that catches what a callback throws and goes on with the loop.
Swallow(error) ==
    /\ stack' = Below \o <<[Top EXCEPT !.e = @ + 1]>>
    /\ UNCHANGED result

\* An exception leaves every frame: nothing in the emitter catches.
Throw(error) ==
    /\ stack' = <<>>
    /\ result' = error

\* A dispatch that hands the caller's object itself to the callbacks.
Shared(obj) == obj

\* {...params}: a new object with the top-level keys and values of params
Spread(obj) == Object("copy", [key \in DOMAIN obj.val |-> obj.val[key]])

\* What the assignment of the mutating callback leaves in the object it got.
Written(val) == [val EXCEPT !["k"] = 2]

\* callback.call(ctx, {...params}) made by the frame on top of the stack;
\* rest is the stack with that frame's loop index advanced. The trace records
\* the callback, its invocation context and the loop that made the call.
Invoke(callback, ctx, eventName, rest) ==
    /\ LET received == Spread(Object("caller", params.val))
       IN  /\ trace' = Append(trace, [cb |-> callback, ctx |-> ctx, depth |-> Len(stack),
                                      loop |-> Top.phase, w |-> Top.w,
                                      seen |-> received.val])
           /\ params' = IF Behaviour(callback.orig) = "mutate" /\ received.ref = "caller"
                        THEN [params EXCEPT !.val = Written(@)]
                        ELSE params
    /\ calls' = IF callback.id > 0
                THEN [calls EXCEPT ![callback.id] = @ + 1]
                ELSE calls
    /\ CASE ctx = Class /\ Behaviour(callback.orig) # "throw"
                         /\ (callback.id > 0 \/ ~Returns(callback.orig)) ->
              \* the class has no method off, fire or on: the call of this.off
              \* by a oneTimeCallback, or of this.fire or this.on by the user
              \* function, is a call of undefined
              /\ Throw("TypeError")
              /\ UNCHANGED instanceEvents
         [] ctx = Class /\ callback.id = 0 /\ Returns(callback.orig) ->
              /\ stack' = rest
              /\ UNCHANGED <<instanceEvents, result>>
         [] ctx # Class /\ Returns(callback.orig) ->
              \* the user function returns; a oneTimeCallback then calls off
              /\ instanceEvents' =
                    IF callback.id > 0
                    THEN [instanceEvents EXCEPT ![ctx] = Off(@, eventName, callback)]
                    ELSE instanceEvents
              /\ stack' = rest
              /\ UNCHANGED result
         [] Behaviour(callback.orig) = "throw" ->
              /\ Throw("Error")
              /\ UNCHANGED instanceEvents
         [] ctx # Class /\ Behaviour(callback.orig) = "register" ->
              \* the user function calls this.on(eventName, itself) and returns;
              \* a oneTimeCallback then calls off
              LET added == [instanceEvents EXCEPT ![ctx] =
                              registerEvent(@, Event(eventName, Cb(callback.orig), ctx))]
              IN  /\ Len(EventsFor(instanceEvents[ctx], eventName)) < MaxLen
                  /\ instanceEvents' =
                        IF callback.id > 0
                        THEN [added EXCEPT ![ctx] = Off(@, eventName, callback)]
                        ELSE added
                  /\ stack' = rest
                  /\ UNCHANGED result
         [] ctx # Class /\ Behaviour(callback.orig) = "fire" ->
              LET frames == (IF callback.id > 0
                             THEN <<OnceFrame(ctx, eventName, callback)>>
                             ELSE <<>>) \o <<FireFrame(ctx, ReHook)>>
              IN  /\ IF Len(rest) + Len(frames) > MaxDepth
                     THEN Throw("RangeError")
                     ELSE stack' = rest \o frames /\ UNCHANGED result
                  /\ UNCHANGED instanceEvents

\* A fire that makes an empty sequence for a hook the emitter has none for.
fireCreating(this, eventName, args) ==
    /\ Idle
    /\ this \in constructed
    /\ instanceEvents' =
          IF eventName \in DOMAIN instanceEvents[this]
          THEN instanceEvents
          ELSE [instanceEvents EXCEPT ![this] = @ @@ (eventName :> <<>>)]
    /\ stack' = <<[kind |-> "fire", em |-> this, hook |-> eventName,
                   phase |-> "local",
                   len |-> Len(EventsFor(instanceEvents[this], eventName)),
                   e |-> 1, w |-> 1, cb |-> NoCb]>>
    /\ trace' = <<>>
    /\ result' = "running"
    /\ pre' = Snapshot
    /\ lastOp' = [op |-> "fire", em |-> this, hook |-> eventName, cb |-> NoCb,
                  other |-> None]
    /\ used' = [used EXCEPT !.fire = @ + 1]
    /\ params' = [val |-> args, passed |-> args]
    /\ earlier' = <<>>
    /\ UNCHANGED <<constructed, classEvents, classRef, wiredEmitters, calls, cancelled>>

\* fire(eventName, params): entry of a top-level call
fireWith(this, eventName, args) ==
    /\ Idle
    /\ this \in constructed
    /\ stack' = <<FireFrame(this, eventName)>>
    /\ trace' = <<>>
    /\ result' = "running"
    /\ pre' = Snapshot
    /\ lastOp' = [op |-> "fire", em |-> this, hook |-> eventName, cb |-> NoCb,
                  other |-> None]
    /\ used' = [used EXCEPT !.fire = @ + 1]
    /\ params' = [val |-> args, passed |-> args]
    /\ earlier' = IF lastOp.op = "fire"
                  THEN Append(earlier, [em |-> lastOp.em, hook |-> lastOp.hook,
                                        result |-> result, trace |-> trace])
                  ELSE <<>>
    /\ UNCHANGED <<constructed, instanceEvents, classEvents, classRef,
                   wiredEmitters, calls, cancelled>>

\* fire(eventName): params takes its default, {}
fire(this, eventName) == fireWith(this, eventName, NoParams)

\* One iteration of the local loop (lines 160-164): index e is read from the
\* sequence as it is now, while the bound is the captured length.
fireLocal ==
    /\ stack # <<>> /\ Top.kind = "fire" /\ Top.phase = "local"
    /\ Top.e <= Top.len
    /\ LET events == instanceEvents[Top.em][Top.hook]
           rest == Below \o <<[Top EXCEPT !.e = @ + 1]>>
       IN  IF Top.e > Len(events)
           THEN \* instanceEvents[eventName][e] is undefined: reading .callback throws
                /\ Throw("TypeError")
                /\ UNCHANGED <<instanceEvents, trace, calls, params>>
           ELSE Invoke(events[Top.e].callback, Top.em, Top.hook, rest)
    /\ UNCHANGED <<constructed, classEvents, classRef, wiredEmitters, lastOp, pre, cancelled, used, earlier>>

\* The local loop ends (e = len) and the loop over the wired emitters begins.
fireLocalEnd ==
    /\ stack # <<>> /\ Top.kind = "fire" /\ Top.phase = "local"
    /\ Top.e > Top.len
    /\ stack' = Below \o <<[Top EXCEPT !.phase = "wired", !.e = 1, !.w = 1]>>
    /\ UNCHANGED <<constructed, instanceEvents, classEvents, classRef, wiredEmitters,
                   trace, result, lastOp, pre, calls, cancelled, used, earlier, params>>

\* A dispatch that follows the wiring of the wired emitter one step further.
WiredThrough(this, w) ==
    LET wired == wiredEmitters[this][w]
    IN  IF wiredEmitters[wired] # <<>> THEN wiredEmitters[wired][1] ELSE wired

\* this.wiredEmitters[w]
WiredAt(this, w) == wiredEmitters[this][w]

\* The wired emitter under index w has callbacks left for the hook: the inner
\* loop's bound is the sequence's length as it is now (line 169).
WiredPending ==
    /\ Top.w <= Len(wiredEmitters[Top.em])
    /\ LET wired == WiredAt(Top.em, Top.w)
       IN  /\ Top.hook \in DOMAIN instanceEvents[wired]
           /\ Top.e <= Len(instanceEvents[wired][Top.hook])

\* One iteration of the inner wired loop (lines 169-174).
fireWired ==
    /\ stack # <<>> /\ Top.kind = "fire" /\ Top.phase = "wired"
    /\ WiredPending
    /\ LET wired == WiredAt(Top.em, Top.w)
           rest == Below \o <<[Top EXCEPT !.e = @ + 1]>>
       IN  Invoke(instanceEvents[wired][Top.hook][Top.e].callback, wired, Top.hook, rest)
    /\ UNCHANGED <<constructed, classEvents, classRef, wiredEmitters, lastOp, pre, cancelled, used, earlier>>

\* The wired emitter has no sequence for the hook (line 168) or its inner
\* loop is over: w++.
fireWiredNext ==
    /\ stack # <<>> /\ Top.kind = "fire" /\ Top.phase = "wired"
    /\ Top.w <= Len(wiredEmitters[Top.em])
    /\ ~WiredPending
    /\ stack' = Below \o <<[Top EXCEPT !.w = @ + 1, !.e = 1]>>
    /\ UNCHANGED <<constructed, instanceEvents, classEvents, classRef, wiredEmitters,
                   trace, result, lastOp, pre, calls, cancelled, used, earlier, params>>

\* return this (line 176)
fireReturn ==
    /\ stack # <<>> /\ Top.kind = "fire" /\ Top.phase = "wired"
    /\ Top.w > Len(wiredEmitters[Top.em])
    /\ stack' = Below
    /\ result' = IF Below = <<>> THEN "returned" ELSE result
    /\ UNCHANGED <<constructed, instanceEvents, classEvents, classRef, wiredEmitters,
                   trace, lastOp, pre, calls, cancelled, used, earlier, params>>

\* The user function of a oneTimeCallback has returned from a nested
\* dispatch: this.off(eventName, oneTimeCallback) (line 110).
onceOff ==
    /\ stack # <<>> /\ Top.kind = "once"
    /\ instanceEvents' = [instanceEvents EXCEPT ![Top.em] = Off(@, Top.hook, Top.cb)]
    /\ stack' = Below
    /\ UNCHANGED <<constructed, classEvents, classRef, wiredEmitters,
                   trace, result, lastOp, pre, calls, cancelled, used, earlier, params>>

\* The activation of EventEmitter.Fire(eventName, target): the local loop
\* reads the length of the target's sequence at every iteration (line 190).
StaticFrame(target, eventName) ==
    [kind |-> "fire", em |-> target, hook |-> eventName,
     phase |-> IF eventName \in DOMAIN instanceEvents[target] THEN "static" ELSE "wired",
     len |-> 0, e |-> 1, w |-> 1, cb |-> NoCb]

\* static Fire(eventName, target, params): entry of a top-level call
Fire(eventName, target) ==
    /\ Idle
    /\ target \in constructed
    /\ stack' = <<StaticFrame(target, eventName)>>
    /\ trace' = <<>>
    /\ result' = "running"
    /\ pre' = Snapshot
    /\ lastOp' = [op |-> "Fire", em |-> target, hook |-> eventName, cb |-> NoCb,
                  other |-> None]
    /\ used' = [used EXCEPT !.fire = @ + 1]
    /\ earlier' = <<>>
    /\ params' = [val |-> NoParams, passed |-> NoParams]
    /\ UNCHANGED <<constructed, instanceEvents, classEvents, classRef,
                   wiredEmitters, calls, cancelled>>

\* One iteration of the local loop of the static Fire (lines 190-194): the
\* callback is called with this, which in a static method is the class.
FireLocal ==
    /\ stack # <<>> /\ Top.kind = "fire" /\ Top.phase = "static"
    /\ Top.e <= Len(instanceEvents[Top.em][Top.hook])
    /\ Invoke(instanceEvents[Top.em][Top.hook][Top.e].callback, Class, Top.hook,
              Below \o <<[Top EXCEPT !.e = @ + 1]>>)
    /\ UNCHANGED <<constructed, classEvents, classRef, wiredEmitters, lastOp, pre,
                   cancelled, used, earlier>>

\* The local loop of the static Fire ends; the loop over the wired emitters
\* (lines 197-204) is the one of fire.
FireLocalEnd ==
    /\ stack # <<>> /\ Top.kind = "fire" /\ Top.phase = "static"
    /\ Top.e > Len(instanceEvents[Top.em][Top.hook])
    /\ stack' = Below \o <<[Top EXCEPT !.phase = "wired", !.e = 1, !.w = 1]>>
    /\ UNCHANGED <<constructed, instanceEvents, classEvents, classRef, wiredEmitters,
                   trace, result, lastOp, pre, calls, cancelled, used, earlier, params>>

Dispatch ==
    \/ fireLocal
    \/ fireLocalEnd
    \/ fireWired
    \/ fireWiredNext
    \/ fireReturn

-----------------------------------------------------------------------------------------------------------------------------------------------------
(* event-emitter.ts: the events getter *)

\* { ...this.instanceEvents, ...this.classEvents }: the later spread wins
events(this) ==
    LET inst == instanceEvents[this]
        class == classEvents[classRef[this]]
    IN  [hook \in DOMAIN inst \cup DOMAIN class |->
            IF hook \in DOMAIN class THEN class[hook] ELSE inst[hook]]

-----------------------------------------------------------------------------
(* Specifications *)

NoSnapshot == [ie |-> <<>>, ce |-> <<>>, we |-> <<>>]
NoOp == [op |-> None, em |-> None, hook |-> None, cb |-> NoCb, other |-> None]

\* The state in which the emitters of the set made were constructed from a
\* class without decorators and nothing else has happened.
Start(made) ==
    /\ constructed = made
    /\ instanceEvents = [e \in Emitters |-> EmptyEvents]
    /\ classEvents = [o \in Emitters \cup {Proto} |-> EmptyEvents]
    /\ classRef = [e \in Emitters |-> e]
    /\ wiredEmitters = [e \in Emitters |-> <<>>]
    /\ stack = <<>>
    /\ trace = <<>>
    /\ result = "returned"
    /\ lastOp = NoOp
    /\ pre = NoSnapshot
    /\ calls = <<>>
    /\ cancelled = {}
    /\ used = [reg |-> 0, wire |-> 0, fire |-> 0, off |-> 0]
    /\ earlier = <<>>
    /\ params = [val |-> NoParams, passed |-> NoParams]

\* The (hook, user function) pairs the callers pass to on and off.
OnInputs == {<<"h1", "c1">>, <<"h1", "c2">>, <<"h2", "c1">>}

\* A caller makes a call of the kind while fewer than max were made.
Within(kind, max) == used[kind] < max

\* Two emitters, plain callbacks, registration, removal, wiring and dispatch.
Init == Start({"A", "B"})

Next ==
    \/ \E this \in constructed, r \in OnInputs :
          Within("reg", MaxRegs) /\ on(this, r[1], Cb(r[2]))
    \/ \E this \in constructed :
          Within("reg", MaxRegs) /\ once(this, "h1", Cb("c1"))
    \/ \E this \in constructed, r \in OnInputs :
          Within("off", MaxOffs) /\ off(this, r[1], Cb(r[2]))
    \/ \E this, eventable \in constructed :
          Within("wire", MaxWires) /\ wire(this, eventable)
    \/ \E this \in constructed, h \in Hooks :
          Within("fire", MaxFires) /\ fire(this, h)
    \/ Dispatch

Spec == Init /\ [][Next]_vars

\* The dispatch that follows a removal: registration and wiring, off with
\* the function c2, and a fire of the hook on the emitter off was just called
\* on.
NextRegistry ==
    \/ \E this \in constructed, r \in OnInputs :
          Within("reg", MaxRegistryRegs) /\ on(this, r[1], Cb(r[2]))
    \/ \E this \in constructed :
          Within("reg", MaxRegistryRegs) /\ once(this, "h1", Cb("c1"))
    \/ \E this \in constructed, h \in Hooks :
          Within("off", MaxRegistryOffs) /\ off(this, h, Cb("c2"))
    \/ \E this, eventable \in constructed :
          Within("wire", MaxRegistryWires) /\ wire(this, eventable)
    \/ \E this \in constructed :
          /\ Within("fire", MaxRegistryFires)
          /\ lastOp.op = "off" /\ lastOp.em = this
          /\ fire(this, lastOp.hook)
    \/ Dispatch

SpecRegistry == Init /\ [][NextRegistry]_vars

\* Three emitters and one hook: chains and fans of wired emitters.
InitChain == Start({"A", "B", "C"})

NextChain ==
    \/ \E this \in constructed :
          Within("reg", MaxChainRegs) /\ on(this, "h1", Cb("c1"))
    \/ \E this \in constructed :
          Within("reg", MaxChainRegs) /\ once(this, "h1", Cb("c1"))
    \/ \E this, eventable \in constructed :
          Within("wire", MaxChainWires) /\ wire(this, eventable)
    \/ \E this \in constructed :
          Within("fire", MaxChainFires) /\ fire(this, "h1")
    \/ Dispatch

SpecChain == InitChain /\ [][NextChain]_vars

\* Callbacks that fire the hook again from inside the dispatch.
OnceInputs == {<<"h1", "c1">>, <<"h1", "cF">>, <<"h2", "cF">>}

InitReentrant == Start({"A", "B"})

NextReentrant ==
    \/ \E this \in constructed, o \in {"c1", "cF"} :
          Within("reg", MaxRegs) /\ on(this, "h1", Cb(o))
    \/ \E this \in constructed, r \in OnceInputs :
          Within("reg", MaxRegs) /\ once(this, r[1], Cb(r[2]))
    \/ \E this, eventable \in constructed :
          Within("wire", MaxWires) /\ wire(this, eventable)
    \/ \E this \in constructed, h \in Hooks :
          Within("fire", MaxFires) /\ fire(this, h)
    \/ Dispatch
    \/ onceOff

SpecReentrant == InitReentrant /\ [][NextReentrant]_vars

\* A decorated class: registrations on the prototype, then construction.
InitClass == Start({})

NextClass ==
    \/ \E r \in OnInputs :
          Within("reg", MaxRegs) /\ On(r[1], Cb(r[2]), Proto, TRUE)
    \/ \E this \in {"A", "B"} : constructor(this)
    \/ \E this \in constructed :
          Within("reg", MaxRegs) /\ on(this, "h2", Cb("c1"))
    \/ \E this \in constructed, r \in OnInputs :
          Within("off", MaxOffs) /\ off(this, r[1], Cb(r[2]))
    \/ \E this \in constructed :
          Within("wire", MaxWires) /\ wire("A", this)
    \/ \E this \in constructed :
          Within("fire", MaxFires) /\ fire(this, "h1")
    \/ Dispatch

SpecClass == InitClass /\ [][NextClass]_vars

\* Fan-in: A and C are wired to B and fire; B holds a once registration.
InitFan == Start({"A", "B", "C"})

NextFan ==
    \/ \E this \in constructed :
          Within("reg", MaxFanRegs) /\ on(this, "h1", Cb("c2"))
    \/ Within("reg", MaxFanRegs) /\ once("B", "h1", Cb("c1"))
    \/ \E this \in {"A", "C"} :
          Within("wire", MaxFanWires) /\ wire(this, "B")
    \/ \E this \in {"A", "C"} :
          Within("fire", MaxFanFires) /\ fire(this, "h1")
    \/ Dispatch

SpecFan == InitFan /\ [][NextFan]_vars

\* Callbacks that throw, registered by on and by once.
InitThrow == Start({"A", "B"})

NextThrow ==
    \/ \E this \in constructed, o \in {"c1", "cT"} :
          Within("reg", MaxThrowRegs) /\ on(this, "h1", Cb(o))
    \/ \E this \in constructed :
          Within("reg", MaxThrowRegs) /\ once(this, "h1", Cb("cT"))
    \/ \E eventable \in constructed :
          Within("wire", MaxThrowWires) /\ wire("A", eventable)
    \/ \E this \in constructed :
          Within("fire", MaxThrowFires) /\ fire(this, "h1")
    \/ Dispatch

SpecThrow == InitThrow /\ [][NextThrow]_vars

\* Class-scoped registrations made by On and Once, before and after the
\* emitters are constructed, on the prototype or through an emitter.
InitReplay == Start({})

NextReplay ==
    \/ \E target \in Targets(TRUE), o \in {"c1", "c2"} :
          Within("reg", MaxReplayRegs) /\ On("h1", Cb(o), target, TRUE)
    \/ \E target \in Targets(TRUE) :
          Within("reg", MaxReplayRegs) /\ Once("h1", Cb("c1"), target, TRUE)
    \/ \E this \in {"A", "B"} : constructor(this)
    \/ \E this \in constructed :
          Within("off", MaxReplayOffs) /\ off(this, "h1", Cb("c2"))
    \/ Within("wire", MaxReplayWires) /\ wire("A", "B")
    \/ \E this \in constructed :
          Within("fire", MaxReplayFires) /\ fire(this, "h1")
    \/ Dispatch

SpecReplay == InitReplay /\ [][NextReplay]_vars

\* The static Fire next to the method fire.
InitStatic == Start({"A", "B"})

NextStatic ==
    \/ \E this \in constructed, o \in {"c1", "c2"} :
          Within("reg", MaxStaticRegs) /\ on(this, "h1", Cb(o))
    \/ \E this \in constructed :
          Within("reg", MaxStaticRegs) /\ once(this, "h1", Cb("c1"))
    \/ \E this, eventable \in constructed :
          Within("wire", MaxStaticWires) /\ wire(this, eventable)
    \/ \E this \in constructed :
          Within("fire", MaxStaticFires) /\ fire(this, "h1")
    \/ \E target \in constructed :
          Within("fire", MaxStaticFires) /\ Fire("h1", target)
    \/ Dispatch
    \/ FireLocal
    \/ FireLocalEnd

SpecStatic == InitStatic /\ [][NextStatic]_vars

\* Callbacks that write to the object they receive; fire with and without
\* a params argument.
InitParams == Start({"A", "B"})

NextParams ==
    \/ \E this \in constructed, o \in {"c1", "cM"} :
          Within("reg", MaxParamsRegs) /\ on(this, "h1", Cb(o))
    \/ \E eventable \in constructed :
          Within("wire", MaxParamsWires) /\ wire("A", eventable)
    \/ \E this \in constructed, args \in {NoParams, SomeParams} :
          Within("fire", MaxParamsFires) /\ fireWith(this, "h1", args)
    \/ Dispatch

SpecParams == InitParams /\ [][NextParams]_vars

\* Callbacks that register themselves again for the hook being dispatched.
\* A dispatch that has begun goes on: the execution is synchronous.
InitGrow == Start({"A", "B"})

NextGrow ==
    \/ \E this \in constructed, o \in {"c1", "cR"} :
          Within("reg", MaxGrowRegs) /\ on(this, "h1", Cb(o))
    \/ \E this, eventable \in constructed :
          Within("wire", MaxGrowWires) /\ wire(this, eventable)
    \/ \E this \in constructed :
          Within("fire", MaxGrowFires) /\ fire(this, "h1")
    \/ Dispatch

SpecGrow == InitGrow /\ [][NextGrow]_vars /\ WF_vars(Dispatch)

\* Two emitters constructed from one decorated class whose prototype holds
\* Once and On registrations; each emitter fires the hook.
InitShared == Start({})

NextShared ==
    \/ \E o \in {"c1", "c2"} :
          Within("reg", MaxSharedRegs) /\ Once("h1", Cb(o), Proto, TRUE)
    \/ Within("reg", MaxSharedRegs) /\ On("h1", Cb("c2"), Proto, TRUE)
    \/ \E this \in {"A", "B"} : constructor(this)
    \/ \E this, eventable \in constructed :
          Within("wire", MaxSharedWires) /\ wire(this, eventable)
    \/ \E this \in constructed :
          Within("fire", MaxSharedFires) /\ fire(this, "h1")
    \/ Dispatch

SpecShared == InitShared /\ [][NextShared]_vars

-----------------------------------------------------------------------------
(* Vocabulary of the properties *)

Range(s) == {s[i] : i \in 1..Len(s)}

Callbacks(evs) == [i \in 1..Len(evs) |-> evs[i].callback]

Occurrences(s, x) == Cardinality({i \in 1..Len(s) : s[i] = x})

\* The last top-level call was fire(hook) on emitter this and it is over.
Fired(this, hook) ==
    /\ stack = <<>>
    /\ lastOp.op = "fire" /\ lastOp.em = this /\ lastOp.hook = hook

\* How often the last top-level call invoked the callback with that context.
Times(callback, ctx) ==
    Cardinality({j \in 1..Len(trace) : trace[j].cb = callback /\ trace[j].ctx = ctx})

\* The user function is in the sequence through on only, never wrapped by once.
OnlyByOn(evs, orig) ==
    \A i \in 1..Len(evs) : evs[i].callback.orig = orig => evs[i].callback.id = 0

\* The sequence the emitter held for the hook when the last call began.
Before(this, hook) == EventsFor(pre.ie[this], hook)

\* The last top-level fire reached the emitter: it fired, or is wired to the firer.
Reached(em) == em = lastOp.em \/ em \in Range(pre.we[lastOp.em])

-----------------------------------------------------------------------------
(* Properties *)

\* C1: when e holds exactly one registration (made by on) of C for H and is
\* not in its own wiring list, e.fire(H) invokes C exactly once with context e
\* and returns.
C1_FireInvokesOnce ==
    \A e \in constructed, h \in Hooks, o \in {"c1", "c2"} :
        ( /\ Fired(e, h)
          /\ Occurrences(Callbacks(Before(e, h)), Cb(o)) = 1
          /\ OnlyByOn(Before(e, h), o)
          /\ e \notin Range(pre.we[e]) )
        => /\ result = "returned"
           /\ Times(Cb(o), e) = 1

\* C2: a once registration held by W is invoked exactly once, with context W,
\* by the first fire(H) that reaches W, which also removes it from W's
\* sequence for H; no dispatch invokes it a second time.
C2_OnceFirstDispatch ==
    /\ \A k \in 1..Len(calls) : calls[k] <= 1
    /\ \A W \in constructed, h \in Hooks :
         (Fired(lastOp.em, h) /\ Reached(W)) =>
            \A i \in 1..Len(Before(W, h)) :
               LET cb == Before(W, h)[i].callback
               IN  cb.id > 0 =>
                     /\ Times(cb, W) = 1
                     /\ cb \notin Range(Callbacks(EventsFor(instanceEvents[W], h)))

\* C3: the original callback of a once registration is invoked at most once,
\* whatever fire calls are made, re-entrant ones included.
C3_OnceAtMostOnce ==
    \A k \in 1..Len(calls) : calls[k] <= 1

\* C4: after e.once(H, C) directly followed by e.off(H, C), no fire invokes
\* the callback of that registration.
C4_OffCancelsOnce ==
    \A k \in cancelled : calls[k] = 0

\* The last top-level call was off(hook, callback) on emitter this.
Removed(this, hook, callback) ==
    /\ lastOp.op = "off" /\ lastOp.em = this
    /\ lastOp.hook = hook /\ lastOp.cb = callback

\* after is before without its element at position i, the rest in order.
Without(before, i, after) ==
    /\ Len(after) = Len(before) - 1
    /\ \A j \in 1..Len(after) : after[j] = before[IF j < i THEN j ELSE j + 1]

\* The effect of off(H, C) on the registry: the first Event of e's sequence
\* for H whose callback is C is gone and the others keep their order; nothing
\* changes when there is no such Event; the set of hooks, e's other hooks, the
\* class-scoped collections, the wiring lists and the other emitters stay as
\* they were, and the call returns.
OffEffect ==
    \A e \in constructed, h \in Hooks, o \in {"c1", "c2"} :
        Removed(e, h, Cb(o)) =>
            LET before == Before(e, h)
                after == EventsFor(instanceEvents[e], h)
                hits == {i \in 1..Len(before) : before[i].callback = Cb(o)}
            IN  /\ hits # {} =>
                     /\ \E i \in hits :
                          /\ \A j \in hits : i <= j
                          /\ Without(before, i, after)
                     /\ Occurrences(Callbacks(after), Cb(o)) = Cardinality(hits) - 1
                /\ hits = {} => after = before
                /\ DOMAIN instanceEvents[e] = DOMAIN pre.ie[e]
                /\ \A g \in DOMAIN pre.ie[e] \ {h} : instanceEvents[e][g] = pre.ie[e][g]
                /\ \A d \in Emitters \ {e} : instanceEvents[d] = pre.ie[d]
                /\ classEvents = pre.ce
                /\ wiredEmitters = pre.we
                /\ result = "returned" /\ stack = <<>>

\* C5: off(H, C) on e removes exactly the first Event of e's sequence for H
\* whose callback is C, keeps the order of the others and changes nothing
\* else (nothing at all when there is no such Event), and the fire of H on e
\* that follows invokes C with context e once per registration of C that
\* remained: k-1 times when C was registered k times (e not being in its own
\* wiring list).
C5_OffRemovesFirst ==
    /\ OffEffect
    /\ \A e \in constructed, h \in Hooks, o \in {"c1", "c2"} :
          ( /\ Fired(e, h)
            /\ OnlyByOn(Before(e, h), o)
            /\ e \notin Range(pre.we[e]) )
          => Times(Cb(o), e) = Occurrences(Callbacks(Before(e, h)), Cb(o))

\* C6: for a hook that both collections have, the events getter returns the
\* callbacks of the instance-scoped sequence, and for a hook in one collection
\* only those of that collection; so a callback that came from the class and
\* was removed by off is no longer in events[H].
C6_EventsInstanceFirst ==
    \A e \in constructed :
        LET inst == instanceEvents[e]
            class == classEvents[classRef[e]]
        IN  /\ DOMAIN events(e) = DOMAIN inst \cup DOMAIN class
            /\ \A h \in DOMAIN events(e) :
                 Callbacks(events(e)[h]) =
                    Callbacks(IF h \in DOMAIN inst THEN inst[h] ELSE class[h])

\* C7: with B in A's wiring list, A and B distinct and A not in B's list,
\* A.fire(H) invokes every callback B holds for H, and B.fire(H) invokes
\* nothing with context A.
C7_WiringDirected ==
    \A A \in constructed, B \in constructed, h \in Hooks :
        ( /\ lastOp.op = "fire"
          /\ A # B
          /\ B \in Range(pre.we[A])
          /\ A \notin Range(pre.we[B]) )
        => /\ Fired(A, h) =>
                \A i \in 1..Len(Before(B, h)) : Times(Before(B, h)[i].callback, B) >= 1
           /\ Fired(B, h) =>
                \A j \in 1..Len(trace) : trace[j].ctx # A

\* C8: a fire on A invokes callbacks only with A or a member of A's own wiring
\* list as context, so nothing of an emitter that is wired to a wired emitter
\* only; and a fire that returns has invoked a callback of every one of those
\* emitters that held one for the hook.
C8_WiringNotTransitive ==
    /\ \A j \in 1..Len(trace) :
          trace[j].ctx \in {lastOp.em} \cup Range(pre.we[lastOp.em])
    /\ \A W \in constructed, h \in Hooks :
          ( /\ Fired(lastOp.em, h)
            /\ result = "returned"
            /\ Reached(W)
            /\ Before(W, h) # <<>> )
          => \E j \in 1..Len(trace) : trace[j].ctx = W

\* A fire on A, with A wired to B and B wired to C, that returned after
\* invoking the callback of B while C held a callback for the hook too.
C8_Witness ==
    /\ Fired("A", "h1")
    /\ result = "returned"
    /\ pre.we["A"] = <<"B">> /\ pre.we["B"] = <<"C">>
    /\ Before("B", "h1") # <<>> /\ Before("C", "h1") # <<>>
    /\ \E j \in 1..Len(trace) : trace[j].ctx = "B"

\* The invocations fire(hook) makes according to the dispatch order: the
\* callbacks of the sequence each emitter held when the call began.
InvocationsOf(em, hook) ==
    [i \in 1..Len(Before(em, hook)) |->
        [cb |-> Before(em, hook)[i].callback, ctx |-> em]]

RECURSIVE WiredInvocations(_, _)
WiredInvocations(wired, hook) ==
    IF wired = <<>>
    THEN <<>>
    ELSE InvocationsOf(Head(wired), hook) \o WiredInvocations(Tail(wired), hook)

Invocations == [j \in 1..Len(trace) |-> [cb |-> trace[j].cb, ctx |-> trace[j].ctx]]

\* The emitters a fire on this reaches are pairwise distinct.
DistinctReach(this) ==
    /\ this \notin Range(pre.we[this])
    /\ \A i, j \in 1..Len(pre.we[this]) : pre.we[this][i] = pre.we[this][j] => i = j

\* C9: fire(H) on e invokes first the callbacks of e's sequence for H in
\* registration order with context e, then for each wired emitter W in wiring
\* order the callbacks of W's sequence for H in registration order with
\* context W (stated for emitters that are reached once each).
C9_DispatchOrder ==
    \A e \in constructed, h \in Hooks :
        (Fired(e, h) /\ DistinctReach(e)) =>
            Invocations = InvocationsOf(e, h) \o WiredInvocations(pre.we[e], h)

\* C10: a fire on A invokes an on-registered callback of B once per occurrence
\* of B in A's wiring list and per registration, plus once per registration as
\* a local callback when B is A itself.
C10_NoDeduplication ==
    \A A \in constructed, B \in constructed, h \in Hooks, o \in {"c1", "c2"} :
        (Fired(A, h) /\ B \in Range(pre.we[A]) /\ OnlyByOn(Before(B, h), o)) =>
            Times(Cb(o), B) =
                (Occurrences(pre.we[A], B) + (IF A = B THEN 1 ELSE 0))
                    * Occurrences(Callbacks(Before(B, h)), Cb(o))

\* The fire calls made since the last call that was not a fire, the last one
\* included, each with its invocations.
Fires ==
    Append(earlier, [em |-> lastOp.em, hook |-> lastOp.hook,
                     result |-> result, trace |-> trace])

\* How often those fire calls together invoked the callback with that context.
TotalTimes(callback, ctx) ==
    LET made == UNION {{<<f, j>> : j \in 1..Len(Fires[f].trace)} : f \in 1..Len(Fires)}
    IN  Cardinality({x \in made : /\ Fires[x[1]].trace[x[2]].cb = callback
                                  /\ Fires[x[1]].trace[x[2]].ctx = ctx})

\* The last calls were fires of the hook, one by each of n >= 2 distinct
\* emitters other than B, each of which has B exactly once in its wiring list.
FannedIn(B, hook) ==
    /\ stack = <<>> /\ lastOp.op = "fire"
    /\ Len(Fires) >= 2
    /\ \A f \in 1..Len(Fires) :
          /\ Fires[f].hook = hook
          /\ Fires[f].em # B
          /\ Occurrences(pre.we[Fires[f].em], B) = 1
          /\ \A g \in 1..Len(Fires) : Fires[g].em = Fires[f].em => g = f

\* C11: when n distinct emitters, each wired once to B, have each fired the
\* hook once, every callback B holds for the hook through on was invoked n times
\* in total with context B, once for each of its registrations.
C11_FanIn ==
    \A B \in constructed, h \in Hooks, o \in {"c1", "c2"} :
        (FannedIn(B, h) /\ OnlyByOn(Before(B, h), o)) =>
            TotalTimes(Cb(o), B) =
                Len(Fires) * Occurrences(Callbacks(Before(B, h)), Cb(o))

\* The callback of invocation j of the last top-level call threw.
Threw(j) == Behaviour(trace[j].cb.orig) = "throw"

\* C12: an exception thrown by a callback leaves fire: the invocation that
\* threw is the last one of the dispatch, so no callback that comes later in
\* the dispatch order is invoked, and the call has ended with the exception.
C12_ThrowAborts ==
    \A j \in 1..Len(trace) :
        Threw(j) => /\ j = Len(trace)
                    /\ stack = <<>>
                    /\ result = "Error"

\* A fire on A that ended with the exception of its first local callback while
\* A held another callback after it and a wired emitter held one too.
C12_Witness ==
    /\ Fired("A", "h1") /\ result = "Error"
    /\ Len(trace) = 1 /\ Threw(1) /\ trace[1].loop = "local"
    /\ Len(Before("A", "h1")) >= 2
    /\ \E W \in Range(pre.we["A"]) : W # "A" /\ Before(W, "h1") # <<>>

\* The last top-level call was new EventEmitter() and made emitter this.
Constructed(this) == lastOp.op = "new" /\ lastOp.em = this

\* The class-scoped collection the emitter read when the last call began.
ClassBefore(this, hook) == EventsFor(pre.ce[classRef[this]], hook)

\* The invocations the local loop of the last top-level fire made.
LocalInvocations ==
    LET local(inv) == inv.loop = "local" /\ inv.depth = 1
        made == SelectSeq(trace, local)
    IN  [j \in 1..Len(made) |-> [cb |-> made[j].cb, ctx |-> made[j].ctx]]

\* C13: construction leaves in the instance collection the callbacks of the
\* class-scoped collection, hook by hook and in their order; a fire on an
\* emitter whose sequence for the hook is the one construction made invokes
\* those callbacks in that order with the emitter as context; off removes a
\* callback from the instance sequence only, the class-scoped collection keeps
\* it, and a fire invokes no callback that the class-scoped collection holds
\* but the instance sequence does not.
C13_ConstructionReplay ==
    \A e \in constructed, h \in Hooks :
        /\ Constructed(e) =>
              /\ DOMAIN instanceEvents[e] = DOMAIN classEvents[classRef[e]]
              /\ Callbacks(EventsFor(instanceEvents[e], h)) =
                    Callbacks(EventsFor(classEvents[classRef[e]], h))
        /\ ( /\ Fired(e, h)
             /\ Before(e, h) # <<>>
             /\ Callbacks(Before(e, h)) = Callbacks(ClassBefore(e, h)) )
           => LocalInvocations = InvocationsOf(e, h)
        /\ \A o \in {"c1", "c2"} :
              /\ Removed(e, h, Cb(o)) =>
                    /\ classEvents = pre.ce
                    /\ Occurrences(Callbacks(Before(e, h)), Cb(o)) = 1 =>
                          Cb(o) \notin Range(Callbacks(EventsFor(instanceEvents[e], h)))
              /\ ( /\ Fired(e, h)
                   /\ Cb(o) \in Range(Callbacks(ClassBefore(e, h)))
                   /\ Cb(o) \notin Range(Callbacks(Before(e, h))) )
                 => Times(Cb(o), e) = 0

\* The last top-level call was target.fire(hook) or Fire(hook, target) and it
\* is over.
Dispatched(target, hook) ==
    /\ stack = <<>>
    /\ lastOp.op \in {"fire", "Fire"} /\ lastOp.em = target /\ lastOp.hook = hook

\* The emitter that holds the registration invocation j was made for.
Owner(j) ==
    IF trace[j].loop = "wired" THEN pre.we[lastOp.em][trace[j].w] ELSE lastOp.em

\* C14: Fire(H, target) does what target.fire(H) does. Stated for both forms
\* of the call: every callback is invoked with the emitter that holds its
\* registration as context; and on a target that holds at most one registration
\* for the hook the call returns without error, has invoked that callback
\* first, with the target as context, and a once registration of the target is
\* no longer in the target's sequence.
C14_StaticFireEquivalent ==
    \A target \in constructed, h \in Hooks :
        Dispatched(target, h) =>
            /\ \A j \in 1..Len(trace) : trace[j].ctx = Owner(j)
            /\ Len(Before(target, h)) <= 1 =>
                  /\ result = "returned"
                  /\ \A i \in 1..Len(Before(target, h)) :
                        LET cb == Before(target, h)[i].callback
                        IN  /\ Len(trace) >= 1
                            /\ trace[1].cb = cb /\ trace[1].ctx = target
                            /\ cb.id > 0 =>
                                  cb \notin Range(Callbacks(EventsFor(instanceEvents[target], h)))

\* The callback is in the class-scoped collection the emitter reads, for the
\* hook, through registrations made on the emitter itself only: all of them
\* were made after the emitter was constructed.
LateFor(this, hook, callback) ==
    LET class == EventsFor(classEvents[classRef[this]], hook)
    IN  /\ callback \in Range(Callbacks(class))
        /\ \A i \in 1..Len(class) :
              class[i].callback = callback => class[i].source = this

\* C15: a callback that came into an emitter's class-scoped collection only
\* after the emitter was constructed is never invoked with that emitter as
\* context, whichever emitter fires; it is not in the emitter's instance
\* sequence either.
C15_FireIgnoresClassEvents ==
    \A W \in constructed, h \in Hooks :
        \A callback \in Range(Callbacks(EventsFor(classEvents[classRef[W]], h))) :
            LateFor(W, h, callback) =>
                /\ callback \notin Range(Callbacks(EventsFor(instanceEvents[W], h)))
                /\ lastOp.hook = h => Times(callback, W) = 0

\* A fire on A, which reads the class-scoped collection of the prototype,
\* while that collection held a callback registered through A after A was
\* constructed: the fire invoked a callback with context A, and the late one
\* with context B, which was constructed after the registration and is wired
\* to A.
C15_Witness ==
    /\ Fired("A", "h1") /\ result = "returned"
    /\ classRef["A"] = Proto
    /\ LateFor("A", "h1", Cb("c2"))
    /\ pre.we["A"] = <<"B">>
    /\ Times(Cb("c1"), "A") = 1
    /\ Times(Cb("c2"), "B") = 1

\* C16: every callback of a dispatch observes the top-level keys and values
\* the caller passed, whatever the callbacks invoked before it wrote to the
\* objects they received, and the caller's object keeps those values.
C16_ParamsFreshCopy ==
    /\ params.val = params.passed
    /\ \A j \in 1..Len(trace) : trace[j].seen = params.passed

\* A fire with a params object in which a callback that writes to what it
\* receives ran first, before a local callback and a callback of a wired
\* emitter.
C16_Witness ==
    /\ Fired("A", "h1") /\ result = "returned"
    /\ params.passed = SomeParams
    /\ Len(trace) = 3
    /\ trace[1].cb = Cb("cM") /\ trace[1].loop = "local"
    /\ trace[2].cb = Cb("c1") /\ trace[2].loop = "local"
    /\ trace[3].cb = Cb("c1") /\ trace[3].loop = "wired" /\ trace[3].ctx = "B"

\* The invocations the last top-level call made with that context, in order.
InvocationsWith(ctx) ==
    LET with(inv) == inv.ctx = ctx
    IN  SelectSeq(Invocations, with)

\* The sequence holds a once registration that is not its last entry.
OnceThenOthers(evs) == \E i \in 1..(Len(evs) - 1) : evs[i].callback.id > 0

\* C17: a fire that reaches, once, an emitter whose sequence for the hook
\* holds a once registration followed by other callbacks returns without
\* error and has invoked with that emitter as context every callback the
\* sequence held when the dispatch began, exactly once and in registration
\* order.
C17_SelfRemovalTolerated ==
    \A W \in constructed, h \in Hooks :
        ( /\ Fired(lastOp.em, h)
          /\ DistinctReach(lastOp.em)
          /\ Reached(W)
          /\ OnceThenOthers(Before(W, h)) )
        => /\ result = "returned"
           /\ InvocationsWith(W) = InvocationsOf(W, h)

\* Every callback the last top-level call invoked is a user function as on
\* registers it, no oneTimeCallback.
OnlyOnInvoked == \A j \in 1..Len(trace) : trace[j].cb.id = 0

\* C18: a fire in which every invoked callback was registered with on and
\* calls no emitter leaves the instance collection, the class-scoped
\* collection and the wiring list of every emitter as they were and returns;
\* so a fire on a hook without registration makes no entry for the hook, and
\* with an empty wiring list it invokes nothing.
C18_FireChangesNoRegistry ==
    \A e \in constructed, h \in Hooks :
        (Fired(e, h) /\ OnlyOnInvoked) =>
            /\ result = "returned"
            /\ instanceEvents = pre.ie
            /\ classEvents = pre.ce
            /\ wiredEmitters = pre.we
            /\ (h \notin DOMAIN pre.ie[e] /\ pre.we[e] = <<>>) =>
                  (trace = <<>> /\ h \notin DOMAIN instanceEvents[e])

\* A fire that returned after invoking on-registered callbacks of the firing
\* emitter and of a wired emitter, the class-scoped collection holding
\* callbacks too.
C18_Witness ==
    /\ Fired("A", "h1") /\ result = "returned" /\ OnlyOnInvoked
    /\ DOMAIN classEvents[Proto] # {}
    /\ \E i, j \in 1..Len(trace) : trace[i].loop = "local" /\ trace[j].loop = "wired"

\* A fire on a hook the emitter has no sequence for, its wiring list empty.
C18_NoOp ==
    /\ Fired("A", "h1") /\ result = "returned"
    /\ "h1" \notin DOMAIN pre.ie["A"] /\ pre.we["A"] = <<>>

\* The dispatch on top of the stack is in its loop over a wired emitter whose
\* sequence has an entry left at the loop index.
InWiredLoop == stack # <<>> /\ Top.kind = "fire" /\ Top.phase = "wired" /\ WiredPending

\* The callbacks from the loop index on all register themselves again.
RegisteringAhead ==
    LET evs == instanceEvents[WiredAt(Top.em, Top.w)][Top.hook]
    IN  \A i \in Top.e..Len(evs) : Behaviour(evs[i].callback.orig) = "register"

\* A step of the loop over a wired emitter whose pending callbacks register
\* themselves leaves the loop in the same situation, one index further: the
\* loop condition e < length, read again at every iteration, stays true.
WiredLoopGoesOn ==
    [][(InWiredLoop /\ RegisteringAhead) => (InWiredLoop' /\ RegisteringAhead')]_vars

C20_OnceConsumedOnThrow ==
    /\ \A k \in 1..Len(calls) : calls[k] <= 1
    /\ \A h \in Hooks :
          ( /\ Fired(lastOp.em, h)
            /\ trace # <<>> )
          => LET last == trace[Len(trace)]
             IN  (Threw(Len(trace)) /\ last.cb.id > 0) =>
                    last.cb \notin Range(Callbacks(EventsFor(instanceEvents[last.ctx], h)))

\* The other emitters that read the class-scoped collection the emitter reads.
Sharers(this) == {other \in constructed \ {this} : classRef[other] = classRef[this]}

\* The oneTimeCallbacks of the class-scoped collection that the emitter held
\* for the hook, through construction, when the last call began, and whose
\* user function the emitter held in no other registration for the hook.
ClassOnces(this, hook) ==
    {cb \in Range(Callbacks(ClassBefore(this, hook)))
            \cap Range(Callbacks(Before(this, hook))) :
        /\ cb.id > 0
        /\ \A i \in 1..Len(Before(this, hook)) :
              Before(this, hook)[i].callback.orig = cb.orig =>
                 Before(this, hook)[i].callback = cb}

\* C21: when an emitter that shares its class-scoped collection with another
\* emitter, and is wired neither to itself nor to an emitter of its class, has
\* fired the hook, every class-scoped once registration it held for the hook,
\* of a function it held no other registration of, was invoked exactly once with the emitter as context and is gone from its
\* instance sequence, while the instance collections of the other emitters of
\* the class and the class-scoped collection are as they were. The fire may be
\* the first one of an emitter whose fellow has already fired.
C21_ClassOncePerEmitter ==
    \A e \in constructed, h \in Hooks :
        ( /\ Fired(e, h)
          /\ Sharers(e) # {}
          /\ Range(pre.we[e]) \cap (Sharers(e) \cup {e}) = {} )
        => /\ \A cb \in ClassOnces(e, h) :
                 /\ Times(cb, e) = 1
                 /\ cb \notin Range(Callbacks(EventsFor(instanceEvents[e], h)))
           /\ ClassOnces(e, h) # {} =>
                 /\ \A other \in Sharers(e) : instanceEvents[other] = pre.ie[other]
                 /\ classEvents = pre.ce

====
